---- MODULE Spec2Model ----
(***************************************************************************)
(* Model of semver-isvalid: the library routine Validate (package semver)  *)
(* and the command-line function validate (package main) that calls it.    *)
(*                                                                         *)
(* A Go string is a sequence of one-character strings.  A uint64 is four   *)
(* 16-bit limbs, most significant first, so that 64-bit overflow is exact. *)
(* A diagnostic message is a record [kind, part, text]: kind names the     *)
(* format string, part the segment name it carries ("" if none) and text   *)
(* the formatted argument (<<>> if none).                                  *)
(***************************************************************************)
EXTENDS Integers, Sequences, FiniteSets, TLC

VARIABLES arg, withV, pc, ver, parts, v, messages, err, out, exitCode

vars == <<arg, withV, pc, ver, parts, v, messages, err, out, exitCode>>

(***************************************************************************)
(* Bounds of the explored inputs.                                          *)
(***************************************************************************)
\* every string over Alphabet of at most MaxLen characters is an input
MaxLen == 4

(***************************************************************************)
(* Character classes (part_000:135-136).                                   *)
(***************************************************************************)
num == <<"0", "1", "2", "3", "4", "5", "6", "7", "8", "9">>

allowed ==
    <<"a", "b", "c", "d", "e", "f", "g", "h", "i", "j", "k", "l", "m",
      "n", "o", "p", "q", "r", "s", "t", "u", "v", "w", "x", "y", "z",
      "A", "B", "C", "D", "E", "F", "G", "H", "I", "J", "K", "L", "M",
      "N", "O", "P", "Q", "R", "S", "T", "U", "V", "W", "X", "Y", "Z",
      "-">> \o num

(***************************************************************************)
(* The strings package, as used by Validate.                               *)
(***************************************************************************)
\* strings.ContainsRune(comp, r)
ContainsRune(comp, r) == \E j \in 1..Len(comp) : comp[j] = r

\* strings.IndexFunc(s, f) for f = "r is not in comp": 0-based index of the
\* first such character, -1 if there is none
IndexFuncNotIn(s, comp) ==
    LET bad == {i \in 1..Len(s) : ~ContainsRune(comp, s[i])}
    IN  IF bad = {} THEN -1
        ELSE (CHOOSE i \in bad : \A k \in bad : i <= k) - 1

\* containsOnly(s, comp): like strings.ContainsAny but "only" instead of "any"
containsOnly(s, comp) == IndexFuncNotIn(s, comp) = -1

\* strings.ContainsAny(s, chars)
ContainsAny(s, chars) == \E i \in 1..Len(s) : ContainsRune(chars, s[i])

\* strings.Index(s, sep) for a one-character sep, 1-based, 0 if absent
Index(s, sep) ==
    IF \E i \in 1..Len(s) : s[i] = sep
    THEN CHOOSE i \in 1..Len(s) : s[i] = sep /\ \A k \in 1..(i - 1) : s[k] # sep
    ELSE 0

\* strings.SplitN(s, sep, n) for a one-character sep; n < 0 means no limit
\* (strings.Split).  n = 0 never occurs in Validate.
RECURSIVE SplitN(_, _, _)
SplitN(s, sep, n) ==
    IF n = 1 \/ Index(s, sep) = 0
    THEN <<s>>
    ELSE LET i == Index(s, sep)
         IN  <<SubSeq(s, 1, i - 1)>> \o SplitN(SubSeq(s, i + 1, Len(s)), sep, n - 1)

Split(s, sep) == SplitN(s, sep, -1)

\* strings.TrimPrefix(s, "v")
TrimPrefixV(s) == IF Len(s) >= 1 /\ s[1] = "v" THEN Tail(s) ELSE s

(***************************************************************************)
(* uint64 arithmetic: four 16-bit limbs, most significant first.           *)
(***************************************************************************)
LimbBase == 65536

Zero64 == <<0, 0, 0, 0>>

\* c - '0' for a digit character c
DigitVal(c) == (CHOOSE i \in 1..10 : num[i] = c) - 1

\* MulAdd10 with the carry out of bit 63 dropped: the value wraps silently
MulAdd10Wrap(n, d) ==
    LET t4 == n[4] * 10 + d
        t3 == n[3] * 10 + (t4 \div LimbBase)
        t2 == n[2] * 10 + (t3 \div LimbBase)
        t1 == n[1] * 10 + (t2 \div LimbBase)
    IN  [val   |-> <<t1 % LimbBase, t2 % LimbBase, t3 % LimbBase, t4 % LimbBase>>,
         carry |-> 0]

\* n*10 + d in 64 bits: the low 64 bits and the carry out of bit 63
MulAdd10(n, d) ==
    LET t4 == n[4] * 10 + d
        t3 == n[3] * 10 + (t4 \div LimbBase)
        t2 == n[2] * 10 + (t3 \div LimbBase)
        t1 == n[1] * 10 + (t2 \div LimbBase)
    IN  [val   |-> <<t1 % LimbBase, t2 % LimbBase, t3 % LimbBase, t4 % LimbBase>>,
         carry |-> t1 \div LimbBase]

\* strconv.ParseUint(s, 10, 64): [err, val].  "" and any non-digit are a
\* syntax error; a value above 2^64-1 is a range error.
RECURSIVE ParseDigits(_, _)
ParseDigits(s, n) ==
    IF s = <<>> THEN [err |-> "nil", val |-> n]
    ELSE IF ~ContainsRune(num, Head(s)) THEN [err |-> "ErrSyntax", val |-> Zero64]
    ELSE LET r == MulAdd10(n, DigitVal(Head(s)))
         IN  IF r.carry # 0
             THEN [err |-> "ErrRange", val |-> <<65535, 65535, 65535, 65535>>]
             ELSE ParseDigits(Tail(s), r.val)

ParseUint(s) ==
    IF s = <<>> THEN [err |-> "ErrSyntax", val |-> Zero64]
    ELSE ParseDigits(s, Zero64)

\* n / 10 and n % 10 by long division over the limbs
DivMod10(n) ==
    LET a1 == n[1]
        a2 == (a1 % 10) * LimbBase + n[2]
        a3 == (a2 % 10) * LimbBase + n[3]
        a4 == (a3 % 10) * LimbBase + n[4]
    IN  [quo |-> <<a1 \div 10, a2 \div 10, a3 \div 10, a4 \div 10>>,
         rem |-> a4 % 10]

\* fmt's %d of a uint64: the decimal digits, most significant first
RECURSIVE FormatDigits(_)
FormatDigits(n) ==
    IF n = Zero64 THEN <<>>
    ELSE LET r == DivMod10(n)
         IN  Append(FormatDigits(r.quo), num[r.rem + 1])

\* FormatUint of a value narrowed to 32 bits first
FormatUint32(n) ==
    IF n[3] = 0 /\ n[4] = 0 THEN <<"0">> ELSE FormatDigits(<<0, 0, n[3], n[4]>>)

FormatUint(n) == IF n = Zero64 THEN <<"0">> ELSE FormatDigits(n)

\* fmt's %d of the int len(parts), which SplitN(ver, ".", 3) keeps in 1..3
FormatInt(k) == FormatUint(<<0, 0, 0, k>>)

(***************************************************************************)
(* Validate (part_000:32-133).                                             *)
(***************************************************************************)
Msg(kind, part, text) == [kind |-> kind, part |-> part, text |-> text]

numToName(i) ==
    CASE i = 0 -> "major"
      [] i = 1 -> "minor"
      [] i = 2 -> "patch"
      [] OTHER -> "panic: Invalid part number"

\* the suffix extraction of part_000:49-63, applied to parts[2]:
\* [patch, pre, metadata]
TrimSuffixes(p3) ==
    IF ~ContainsAny(p3, <<"-", "+">>)
    THEN [patch |-> p3, pre |-> <<>>, metadata |-> <<>>]
    ELSE LET tmp1 == SplitN(p3, "+", 2)
             md   == IF Len(tmp1) > 1 THEN tmp1[2] ELSE <<>>
             q3   == IF Len(tmp1) > 1 THEN tmp1[1] ELSE p3
             tmp2 == SplitN(q3, "-", 2)
             pr   == IF Len(tmp2) > 1 THEN tmp2[2] ELSE <<>>
             r3   == IF Len(tmp2) > 1 THEN tmp2[1] ELSE q3
         IN  [patch |-> r3, pre |-> pr, metadata |-> md]

\* CorePartError that tolerates one leading "v"
CorePartErrorAllowV(p) ==
    IF ~containsOnly(TrimPrefixV(p), num) THEN "ErrInvalidCharacters"
    ELSE IF Len(p) > 1 /\ p[1] = "0" THEN "ErrSegmentStartsZero"
    ELSE "nil"

\* the body of the loop of part_000:68-78 for one segment
CorePartError(p) ==
    IF ~containsOnly(p, num) THEN "ErrInvalidCharacters"
    ELSE IF Len(p) > 1 /\ p[1] = "0" THEN "ErrSegmentStartsZero"
    ELSE "nil"

\* PreIdError with the leading-zero rule applied to every identifier
PreIdErrorAnyLeadingZero(p) ==
    IF Len(p) > 1 /\ p[1] = "0" THEN "ErrSegmentStartsZero"
    ELSE IF ~containsOnly(p, allowed) THEN "ErrInvalidCharacters"
    ELSE "nil"

\* the body of the loop of part_000:105-115 for one identifier
PreIdError(p) ==
    IF containsOnly(p, num)
    THEN IF Len(p) > 1 /\ p[1] = "0" THEN "ErrSegmentStartsZero" ELSE "nil"
    ELSE IF ~containsOnly(p, allowed) THEN "ErrInvalidCharacters"
    ELSE "nil"

\* the body of the loop of part_000:122-127 for one identifier
MetaIdError(p) == IF ~containsOnly(p, allowed) THEN "ErrInvalidCharacters" ELSE "nil"

\* a range loop with an early return, errs[i] being what the loop body finds
\* for element i: the 1-based index of the first element with an error, 0 if
\* the loop runs to its end
FirstError(errs) ==
    LET bad == {i \in 1..Len(errs) : errs[i] # "nil"}
    IN  IF bad = {} THEN 0 ELSE CHOOSE i \in bad : \A k \in bad : i <= k

(***************************************************************************)
(* The command line (main.go:93-126).                                      *)
(***************************************************************************)
\* ExitStatus with ErrSegmentStartsZero falling into the default case
ExitStatusNoZeroCase(e) ==
    CASE e = "ErrEmptyString"        -> 3
      [] e = "ErrInvalidNumberParts" -> 4
      [] e = "ErrInvalidCharacters"  -> 5
      [] e = "nil"                   -> 0
      [] OTHER                       -> 2

\* the switch of main.go:105-125: the status the process ends with
ExitStatus(e) ==
    CASE e = "ErrEmptyString"        -> 3
      [] e = "ErrInvalidNumberParts" -> 4
      [] e = "ErrInvalidCharacters"  -> 5
      [] e = "ErrSegmentStartsZero"  -> 6
      [] e = "nil"                   -> 0
      [] OTHER                       -> 2

\* the line the switch of main.go:105-125 prints last
FinalLine(e) ==
    CASE e \in {"ErrEmptyString", "ErrInvalidNumberParts",
                "ErrInvalidCharacters", "ErrSegmentStartsZero"}
             -> [stream |-> "stderr", line |-> Msg("InvalidSemanticVersion", e, <<>>)]
      [] e = "nil"
             -> [stream |-> "stdout", line |-> Msg("SemanticVersionIsValid", "", <<>>)]
      [] OTHER
             -> [stream |-> "stderr", line |-> Msg("InvalidSemanticVersionGeneric", "", <<>>)]

\* the loop of main.go:100-102
PrintAll(msgs) == [i \in 1..Len(msgs) |-> [stream |-> "stdout", line |-> msgs[i]]]

(***************************************************************************)
(* Inputs.                                                                 *)
(***************************************************************************)
Alphabet == {"0", "1", "a", "v", ".", "-", "+"}

ShortStrings == UNION {[1..n -> Alphabet] : n \in 0..MaxLen}

FromDigits(ds) == [i \in 1..Len(ds) |-> num[ds[i] + 1]]

\* 2^64-1, 2^64, 2^32 and 10^20-1
MaxUint64Text == FromDigits(<<1, 8, 4, 4, 6, 7, 4, 4, 0, 7, 3, 7, 0, 9, 5, 5, 1, 6, 1, 5>>)
Pow64Text     == FromDigits(<<1, 8, 4, 4, 6, 7, 4, 4, 0, 7, 3, 7, 0, 9, 5, 5, 1, 6, 1, 6>>)
Pow32Text     == FromDigits(<<4, 2, 9, 4, 9, 6, 7, 2, 9, 6>>)
NinesText     == [i \in 1..20 |-> "9"]

CoreTexts ==
    {<<>>, <<"0">>, <<"7">>, <<"0", "7">>, <<"x">>,
     Pow32Text, MaxUint64Text, Pow64Text, NinesText}

PreTexts ==
    {<<>>, <<"-">>, <<"-", "r", "c", "1">>, <<"-", "0", "1">>, <<"-", "0", "a">>,
     <<"-", "a", ".", "0", "1">>, <<"-", "a", ".", "-", "1">>,
     <<"-", "a", ".", ".", "0", "0">>, <<"-", "a", ".", "!">>, <<"-", "!", ".", "0", "0">>}

MetaTexts ==
    {<<>>, <<"+">>, <<"+", "0", "1">>, <<"+", "t", "-", "0", "1">>,
     <<"+", "a", ".", ".", "b">>, <<"+", "a", ".", "!">>, <<"+", "a", "+", "b">>}

\* major "." minor "." patch, then a pre-release and a build-metadata suffix
LongStrings ==
    {ma \o <<".">> \o mi \o <<".">> \o pa \o pr \o md :
        ma \in CoreTexts, mi \in {<<"2">>, Pow64Text}, pa \in {<<"3">>},
        pr \in PreTexts, md \in MetaTexts}
    \cup {<<"1">> \o <<".">> \o mi \o <<".">> \o pa \o pr \o md :
        mi \in CoreTexts, pa \in CoreTexts,
        pr \in {<<>>, <<"-", "a">>}, md \in {<<>>, <<"+", "b">>}}

Inputs == ShortStrings \cup LongStrings

ZeroVersion ==
    [major |-> Zero64, minor |-> Zero64, patch |-> Zero64,
     pre |-> <<>>, metadata |-> <<>>]

Init ==
    /\ arg \in Inputs
    /\ withV \in BOOLEAN
    /\ pc = "cli"
    /\ ver = <<>>
    /\ parts = <<>>
    /\ v = ZeroVersion
    /\ messages = <<>>
    /\ err = "nil"
    /\ out = <<>>
    /\ exitCode = -1

(***************************************************************************)
(* Steps of validate and Validate.                                         *)
(***************************************************************************)
\* main.go:95-99: strip one leading "v" when --with-v is set, call Validate
CliCall ==
    /\ pc = "cli"
    /\ ver' = IF withV THEN TrimPrefixV(arg) ELSE arg
    /\ pc' = "empty"
    /\ UNCHANGED <<arg, withV, parts, v, messages, err, out, exitCode>>

\* EmptyCheck without the early return
EmptyCheckNoReturn ==
    /\ pc = "empty"
    /\ pc' = "split"
    /\ UNCHANGED <<arg, withV, ver, parts, v, messages, err, out, exitCode>>

\* part_000:34-37
EmptyCheck ==
    /\ pc = "empty"
    /\ IF Len(ver) = 0
       THEN /\ err' = "ErrEmptyString"
            /\ messages' = <<>>
            /\ pc' = "returned"
       ELSE /\ pc' = "split"
            /\ UNCHANGED <<err, messages>>
    /\ UNCHANGED <<arg, withV, ver, parts, v, out, exitCode>>

\* SegmentSplit with strings.Split in place of strings.SplitN(.., 3)
SegmentSplitUnlimited ==
    /\ pc = "split"
    /\ LET ps == Split(ver, ".")
       IN  IF Len(ps) # 3
           THEN /\ err' = "ErrInvalidNumberParts"
                /\ messages' = <<Msg("FoundNumberOfParts", "", FormatInt(Len(ps)))>>
                /\ pc' = "returned"
                /\ UNCHANGED parts
           ELSE /\ parts' = ps
                /\ pc' = "suffix"
                /\ UNCHANGED <<err, messages>>
    /\ UNCHANGED <<arg, withV, ver, v, out, exitCode>>

\* part_000:39-45
SegmentSplit ==
    /\ pc = "split"
    /\ LET ps == SplitN(ver, ".", 3)
       IN  IF Len(ps) # 3
           THEN /\ err' = "ErrInvalidNumberParts"
                /\ messages' = <<Msg("FoundNumberOfParts", "", FormatInt(Len(ps)))>>
                /\ pc' = "returned"
                /\ UNCHANGED parts
           ELSE /\ parts' = ps
                /\ pc' = "suffix"
                /\ UNCHANGED <<err, messages>>
    /\ UNCHANGED <<arg, withV, ver, v, out, exitCode>>

\* part_000:47-63
SuffixExtract ==
    /\ pc = "suffix"
    /\ LET t == TrimSuffixes(parts[3])
       IN  /\ parts' = [parts EXCEPT ![3] = t.patch]
           /\ v' = [v EXCEPT !.pre = t.pre, !.metadata = t.metadata]
    /\ pc' = "core"
    /\ UNCHANGED <<arg, withV, ver, messages, err, out, exitCode>>

\* CoreCheck that reports the last failing segment instead of the first
CoreCheckLastFailing ==
    /\ pc = "core"
    /\ LET bad == {k \in 1..3 : CorePartError(parts[k]) # "nil"}
           i   == IF bad = {} THEN 0 ELSE CHOOSE k \in bad : \A j \in bad : j <= k
       IN  IF i = 0
           THEN /\ pc' = "major"
                /\ UNCHANGED <<err, messages>>
           ELSE /\ err' = CorePartError(parts[i])
                /\ messages' =
                      Append(messages,
                             Msg(IF err' = "ErrInvalidCharacters"
                                 THEN "IllegalNonNumeric" ELSE "IllegalLeadingZero",
                                 numToName(i - 1), <<>>))
                /\ pc' = "returned"
    /\ UNCHANGED <<arg, withV, ver, parts, v, out, exitCode>>

\* part_000:65-78
CoreCheck ==
    /\ pc = "core"
    /\ LET i == FirstError([k \in 1..Len(parts) |-> CorePartError(parts[k])])
       IN  IF i = 0
           THEN /\ pc' = "major"
                /\ UNCHANGED <<err, messages>>
           ELSE /\ err' = CorePartError(parts[i])
                /\ messages' =
                      Append(messages,
                             Msg(IF err' = "ErrInvalidCharacters"
                                 THEN "IllegalNonNumeric" ELSE "IllegalLeadingZero",
                                 numToName(i - 1), <<>>))
                /\ pc' = "returned"
    /\ UNCHANGED <<arg, withV, ver, parts, v, out, exitCode>>

\* part_000:82-87 (i = 0), 89-94 (i = 1), 96-101 (i = 2)
ParseSegment(i, here, next) ==
    /\ pc = here
    /\ LET r == ParseUint(parts[i + 1])
       IN  IF r.err # "nil"
           THEN /\ v' = [v EXCEPT ![numToName(i)] = r.val]
                /\ err' = r.err
                /\ messages' = Append(messages, Msg("UnableToParse", numToName(i), <<>>))
                /\ pc' = "returned"
           ELSE /\ v' = [v EXCEPT ![numToName(i)] = r.val]
                /\ messages' = Append(messages,
                                      Msg("Found", numToName(i), FormatUint(v'[numToName(i)])))
                /\ pc' = next
                /\ UNCHANGED err
    /\ UNCHANGED <<arg, withV, ver, parts, out, exitCode>>

ParseMajor == ParseSegment(0, "major", "minor")
ParseMinor == ParseSegment(1, "minor", "patch")
ParsePatch == ParseSegment(2, "patch", "pre")

\* part_000:103-118
PreRelease ==
    /\ pc = "pre"
    /\ IF v.pre # <<>>
       THEN LET tmp == Split(v.pre, ".")
                i   == FirstError([k \in 1..Len(tmp) |-> PreIdError(tmp[k])])
            IN  IF i = 0
                THEN /\ messages' = messages \o
                                      <<Msg("PreRelease", "", v.pre), Msg("PreReleaseNotice", "", <<>>)>>
                     /\ pc' = "meta"
                     /\ UNCHANGED err
                ELSE /\ err' = PreIdError(tmp[i])
                     /\ messages' =
                           Append(messages,
                                  Msg(IF err' = "ErrSegmentStartsZero"
                                      THEN "PreLeadingZero" ELSE "PreIllegalChars",
                                      "", tmp[i]))
                     /\ pc' = "returned"
       ELSE /\ pc' = "meta"
            /\ UNCHANGED <<err, messages>>
    /\ UNCHANGED <<arg, withV, ver, parts, v, out, exitCode>>

\* part_000:120-132
Metadata ==
    /\ pc = "meta"
    /\ IF v.metadata # <<>>
       THEN LET tmp == Split(v.metadata, ".")
                i   == FirstError([k \in 1..Len(tmp) |-> MetaIdError(tmp[k])])
            IN  IF i = 0
                THEN /\ messages' = messages \o
                                      <<Msg("FoundMetadata", "", v.metadata), Msg("MetadataNotice", "", <<>>)>>
                     /\ err' = "nil"
                ELSE /\ err' = MetaIdError(tmp[i])
                     /\ messages' = Append(messages, Msg("MetaIllegalChars", "", tmp[i]))
       ELSE /\ err' = "nil"
            /\ UNCHANGED messages
    /\ pc' = "returned"
    /\ UNCHANGED <<arg, withV, ver, parts, v, out, exitCode>>

\* main.go:100-125
CliReport ==
    /\ pc = "returned"
    /\ out' = Append(PrintAll(messages), FinalLine(err))
    /\ exitCode' = ExitStatus(err)
    /\ pc' = "exited"
    /\ UNCHANGED <<arg, withV, ver, parts, v, messages, err>>

Next ==
    \/ CliCall
    \/ EmptyCheck
    \/ SegmentSplit
    \/ SuffixExtract
    \/ CoreCheck
    \/ ParseMajor
    \/ ParseMinor
    \/ ParsePatch
    \/ PreRelease
    \/ Metadata
    \/ CliReport

Spec == Init /\ [][Next]_vars

(***************************************************************************)
(* The input read positionally, for stating the properties: where the      *)
(* separators are and what lies between them.                              *)
(***************************************************************************)
DigitSet == {"0", "1", "2", "3", "4", "5", "6", "7", "8", "9"}

IdentifierSet ==
    DigitSet \cup {"-"} \cup
    {"a", "b", "c", "d", "e", "f", "g", "h", "i", "j", "k", "l", "m",
     "n", "o", "p", "q", "r", "s", "t", "u", "v", "w", "x", "y", "z",
     "A", "B", "C", "D", "E", "F", "G", "H", "I", "J", "K", "L", "M",
     "N", "O", "P", "Q", "R", "S", "T", "U", "V", "W", "X", "Y", "Z"}

Positions(s, c) == {i \in 1..Len(s) : s[i] = c}
Least(S) == CHOOSE i \in S : \A k \in S : i <= k

\* position of the first c in s, Len(s)+1 if there is none
FirstAt(s, c) == IF Positions(s, c) = {} THEN Len(s) + 1 ELSE Least(Positions(s, c))

DotCount(s) == Cardinality(Positions(s, "."))
Dot1(s) == Least(Positions(s, "."))
Dot2(s) == Least(Positions(s, ".") \ {Dot1(s)})

\* defined when DotCount(s) >= 2
MajorOf(s)  == SubSeq(s, 1, Dot1(s) - 1)
MinorOf(s)  == SubSeq(s, Dot1(s) + 1, Dot2(s) - 1)
ThirdOf(s)  == SubSeq(s, Dot2(s) + 1, Len(s))
\* the third piece up to its first "+", and the build metadata after it
CoreAndPreOf(s) == SubSeq(ThirdOf(s), 1, FirstAt(ThirdOf(s), "+") - 1)
HasMeta(s)  == Positions(ThirdOf(s), "+") # {}
MetaOf(s)   == SubSeq(ThirdOf(s), FirstAt(ThirdOf(s), "+") + 1, Len(ThirdOf(s)))
\* before the "+": the patch up to the first "-", the pre-release after it
PatchOf(s)  == SubSeq(CoreAndPreOf(s), 1, FirstAt(CoreAndPreOf(s), "-") - 1)
HasPre(s)   == Positions(CoreAndPreOf(s), "-") # {}
PreOf(s)    == SubSeq(CoreAndPreOf(s), FirstAt(CoreAndPreOf(s), "-") + 1, Len(CoreAndPreOf(s)))

SegmentOf(s, i) == CASE i = 1 -> MajorOf(s) [] i = 2 -> MinorOf(s) [] OTHER -> PatchOf(s)
SegmentName == <<"major", "minor", "patch">>

\* the dot-separated identifiers of t as spans <<a, b>>: the identifier is
\* t[a+1 .. b-1], and a is 0 or a dot, b the next dot or Len(t)+1
Spans(t) ==
    LET B == {0} \cup Positions(t, ".") \cup {Len(t) + 1}
    IN  {sp \in B \X B : sp[1] < sp[2] /\ ~\E c \in B : sp[1] < c /\ c < sp[2]}
IdAt(t, sp) == SubSeq(t, sp[1] + 1, sp[2] - 1)

AllDigits(x)   == \A i \in 1..Len(x) : x[i] \in DigitSet
AllIdChars(x)  == \A i \in 1..Len(x) : x[i] \in IdentifierSet
LeadingZero(x) == Len(x) > 1 /\ x[1] = "0"

\* x, a string of digits without leading zero, denotes a value <= 2^64-1
FitsUint64(x) ==
    \/ Len(x) < 20
    \/ /\ Len(x) = 20
       /\ \/ x = MaxUint64Text
          \/ \E i \in 1..20 : /\ DigitVal(x[i]) < DigitVal(MaxUint64Text[i])
                              /\ \A k \in 1..(i - 1) : x[k] = MaxUint64Text[k]

\* a numeric identifier of the SemVer grammar, within the uint64 range
NumericId(x) == x # <<>> /\ AllDigits(x) /\ ~LeadingZero(x) /\ FitsUint64(x)

\* the Semantic Versioning 2.0.0 grammar (<valid semver>), with the core
\* identifiers within the uint64 range
IsSemVer(s) ==
    /\ DotCount(s) >= 2
    /\ NumericId(MajorOf(s)) /\ NumericId(MinorOf(s)) /\ NumericId(PatchOf(s))
    /\ HasPre(s) => \A sp \in Spans(PreOf(s)) :
                       LET id == IdAt(PreOf(s), sp)
                       IN  id # <<>> /\ AllIdChars(id) /\ (AllDigits(id) => ~LeadingZero(id))
    /\ HasMeta(s) => \A sp \in Spans(MetaOf(s)) :
                       LET id == IdAt(MetaOf(s), sp)
                       IN  id # <<>> /\ AllIdChars(id)

Returned == pc = "returned"
LastMessage == messages[Len(messages)]

(***************************************************************************)
(* C1: Validate returns nil for a string if and only if the string is a    *)
(* Semantic Versioning 2.0.0 version (core identifiers numeric, without    *)
(* leading zero, within uint64; pre-release and build identifiers          *)
(* non-empty, over [0-9A-Za-z-], numeric pre-release ones without leading  *)
(* zero).  Refuted: "7.2.3-" is returned valid.                            *)
(***************************************************************************)
C1_ValidIffSemVer == Returned => (err = "nil" <=> IsSemVer(ver))

(***************************************************************************)
(* C2: the diagnostics are empty if and only if the input has zero length, *)
(* and then the outcome is ErrEmptyString; every non-empty input yields at *)
(* least one diagnostic.                                                   *)
(***************************************************************************)
C2_EmptyDiagnosticsIffEmptyInput ==
    Returned => /\ (messages = <<>>) <=> (Len(ver) = 0)
                /\ Len(ver) = 0 => err = "ErrEmptyString"
                /\ Len(ver) > 0 => Len(messages) >= 1

C2_Witness == Returned /\ Len(ver) = 0 /\ Len(arg) = 1 /\ messages = <<>>

(***************************************************************************)
(* C3: for a non-empty input the outcome is ErrInvalidNumberParts exactly  *)
(* when the input has fewer than two "." characters; the diagnostics are   *)
(* then the single message reporting 1 or 2 pieces.  Two or more dots      *)
(* never give ErrInvalidNumberParts.                                       *)
(***************************************************************************)
C3_WrongSegmentCount ==
    (Returned /\ Len(ver) > 0) =>
        /\ (err = "ErrInvalidNumberParts") <=> (DotCount(ver) < 2)
        /\ DotCount(ver) = 0 => messages = <<Msg("FoundNumberOfParts", "", <<"1">>)>>
        /\ DotCount(ver) = 1 => messages = <<Msg("FoundNumberOfParts", "", <<"2">>)>>

C3_Witness ==
    Returned /\ DotCount(ver) = 1 /\ err = "ErrInvalidNumberParts"
             /\ messages = <<Msg("FoundNumberOfParts", "", <<"2">>)>>

(***************************************************************************)
(* C4: for a valid input the first three diagnostics are the major, minor  *)
(* and patch lines, in this order, each reporting exactly the value of the *)
(* segment of the input (the decimal text of a segment without leading     *)
(* zero is its value), the patch being the third piece without suffixes.   *)
(***************************************************************************)
C4_FoundLinesReportSegments ==
    (Returned /\ err = "nil") =>
        /\ Len(messages) >= 3
        /\ DotCount(ver) >= 2
        /\ \A i \in 1..3 :
              /\ messages[i] = Msg("Found", SegmentName[i], SegmentOf(ver, i))
              /\ NumericId(SegmentOf(ver, i))

C4_Witness ==
    /\ Returned /\ err = "nil" /\ DotCount(ver) >= 2
    /\ MajorOf(ver) = MaxUint64Text
    /\ HasPre(ver) /\ HasMeta(ver) /\ Len(messages) = 7
    /\ messages[1] = Msg("Found", "major", MaxUint64Text)

(***************************************************************************)
(* C5: for an input whose major, minor and patch pass, the outcome is      *)
(* ErrSegmentStartsZero exactly when the first offending pre-release       *)
(* identifier is all digits, longer than one character and starts with     *)
(* "0".  An identifier is offending when it is all digits with a leading   *)
(* zero, or not all digits and with a character outside [0-9A-Za-z-].      *)
(* Hence a pre-release identifier such as 0a, and every build-metadata     *)
(* identifier (01, t-01), never gives ErrSegmentStartsZero.                *)
(***************************************************************************)
CorePasses(s) ==
    DotCount(s) >= 2 /\ \A i \in 1..3 : NumericId(SegmentOf(s, i))

Offending(id) ==
    \/ AllDigits(id) /\ LeadingZero(id)
    \/ ~AllDigits(id) /\ ~AllIdChars(id)

OffendingSpans(t) == {sp \in Spans(t) : Offending(IdAt(t, sp))}

\* the first offending identifier of t; defined when there is one
FirstOffending(t) ==
    IdAt(t, CHOOSE sp \in OffendingSpans(t) : \A o \in OffendingSpans(t) : sp[1] <= o[1])

C5_LeadingZeroOnlyNumericPreRelease ==
    (Returned /\ CorePasses(ver)) =>
        ((err = "ErrSegmentStartsZero") <=>
            /\ OffendingSpans(PreOf(ver)) # {}
            /\ AllDigits(FirstOffending(PreOf(ver)))
            /\ LeadingZero(FirstOffending(PreOf(ver))))

C5_Witness ==
    /\ Returned /\ CorePasses(ver) /\ err = "ErrSegmentStartsZero"
    /\ HasMeta(ver) /\ Cardinality(Spans(PreOf(ver))) = 3
    /\ LastMessage = Msg("PreLeadingZero", "", <<"0", "0">>)

(***************************************************************************)
(* C6: an input whose first character is "v" is never valid: with fewer    *)
(* than three pieces the outcome is ErrInvalidNumberParts, otherwise it is *)
(* ErrInvalidCharacters with the single diagnostic naming the major part.  *)
(***************************************************************************)
C6_LeadingVRejected ==
    (Returned /\ Len(ver) > 0 /\ ver[1] = "v") =>
        /\ err # "nil"
        /\ DotCount(ver) < 2 => err = "ErrInvalidNumberParts"
        /\ DotCount(ver) >= 2 =>
              /\ err = "ErrInvalidCharacters"
              /\ messages = <<Msg("IllegalNonNumeric", "major", <<>>)>>

C6_Witness ==
    /\ Returned /\ withV /\ Len(ver) > 0 /\ ver[1] = "v" /\ arg # ver
    /\ DotCount(ver) >= 2
    /\ err = "ErrInvalidCharacters"

(***************************************************************************)
(* C7.  A core segment is canonical when it is a non-empty string of       *)
(* digits without leading zero.                                            *)
(***************************************************************************)
Canonical(x) == x # <<>> /\ AllDigits(x) /\ ~LeadingZero(x)

\* Validate gets as far as parsing segment i: all three segments pass the
\* character and leading-zero check and the segments before i parse
ReachesParse(s, i) ==
    /\ \A k \in 1..3 : AllDigits(SegmentOf(s, k)) /\ ~LeadingZero(SegmentOf(s, k))
    /\ \A k \in 1..(i - 1) : NumericId(SegmentOf(s, k))

FoundLinesFor(i) ==
    {k \in 1..Len(messages) : messages[k].kind = "Found" /\ messages[k].part = SegmentName[i]}

BlamedSegments ==
    {messages[k].part : k \in {j \in 1..Len(messages) :
        messages[j].kind \in {"IllegalNonNumeric", "IllegalLeadingZero", "UnableToParse"}}}

\* C7 as stated: a canonical segment with a value <= 2^64-1 is accepted (no
\* diagnostic blames it, a Found line for it reports exactly its value); for
\* a canonical segment with a larger value Validate returns the overflow
\* outcome, with the parse-failure line naming the segment as the last
\* diagnostic.  Refuted: a segment above 2^64-1 that stands behind a segment
\* with an illegal character gives ErrInvalidCharacters.
C7_Original ==
    (Returned /\ DotCount(ver) >= 2) =>
        \A i \in 1..3 :
            Canonical(SegmentOf(ver, i)) =>
                IF FitsUint64(SegmentOf(ver, i))
                THEN /\ SegmentName[i] \notin BlamedSegments
                     /\ \A k \in FoundLinesFor(i) : messages[k].text = SegmentOf(ver, i)
                ELSE /\ err = "ErrRange"
                     /\ LastMessage = Msg("UnableToParse", SegmentName[i], <<>>)

\* C7 (amended): for a canonical segment, when Validate gets as far as
\* parsing it: a value <= 2^64-1 is accepted and diagnostic i is the Found
\* line reporting exactly that value; a larger value gives the outcome
\* ErrRange (none of nil, ErrEmptyString, ErrInvalidNumberParts,
\* ErrInvalidCharacters, ErrSegmentStartsZero) and the parse-failure line
\* naming the segment is the last diagnostic.  In every case an input with a
\* canonical segment above 2^64-1 is not valid and no Found line is reported
\* for that segment.
C7_OverflowIsDistinctError ==
    (Returned /\ DotCount(ver) >= 2) =>
        \A i \in 1..3 :
            Canonical(SegmentOf(ver, i)) =>
                /\ FitsUint64(SegmentOf(ver, i)) => SegmentName[i] \notin BlamedSegments
                /\ (ReachesParse(ver, i) /\ FitsUint64(SegmentOf(ver, i))) =>
                      /\ Len(messages) >= i
                      /\ messages[i] = Msg("Found", SegmentName[i], SegmentOf(ver, i))
                      /\ FoundLinesFor(i) = {i}
                /\ (ReachesParse(ver, i) /\ ~FitsUint64(SegmentOf(ver, i))) =>
                      /\ err = "ErrRange"
                      /\ Len(messages) = i
                      /\ LastMessage = Msg("UnableToParse", SegmentName[i], <<>>)
                /\ ~FitsUint64(SegmentOf(ver, i)) =>
                      /\ err # "nil"
                      /\ FoundLinesFor(i) = {}

C7_Witness ==
    /\ Returned /\ DotCount(ver) >= 2
    /\ MajorOf(ver) = MaxUint64Text /\ MinorOf(ver) = Pow64Text
    /\ err = "ErrRange"
    /\ messages = <<Msg("Found", "major", MaxUint64Text), Msg("UnableToParse", "minor", <<>>)>>

(***************************************************************************)
(* C8: the exit status is decided by the outcome alone: ErrEmptyString 3,  *)
(* ErrInvalidNumberParts 4, ErrInvalidCharacters 5, ErrSegmentStartsZero   *)
(* 6, any other error 2, nil 0 with the confirmation line; and the output  *)
(* is every diagnostic, in order, on standard output, then that one last   *)
(* line.                                                                   *)
(***************************************************************************)
C8_ExitStatusByOutcome ==
    pc = "exited" =>
        /\ (exitCode = 3) <=> (err = "ErrEmptyString")
        /\ (exitCode = 4) <=> (err = "ErrInvalidNumberParts")
        /\ (exitCode = 5) <=> (err = "ErrInvalidCharacters")
        /\ (exitCode = 6) <=> (err = "ErrSegmentStartsZero")
        /\ (exitCode = 0) <=> (err = "nil")
        /\ (exitCode = 2) <=> (err \in {"ErrSyntax", "ErrRange"})
        /\ Len(out) = Len(messages) + 1
        /\ \A i \in 1..Len(messages) : out[i] = [stream |-> "stdout", line |-> messages[i]]
        /\ LET last == out[Len(out)]
           IN  IF err = "nil"
               THEN last.stream = "stdout" /\ last.line.kind = "SemanticVersionIsValid"
               ELSE /\ last.stream = "stderr"
                    /\ last.line.kind \in {"InvalidSemanticVersion",
                                           "InvalidSemanticVersionGeneric"}
                    /\ last.line.kind = "InvalidSemanticVersion" => last.line.part = err

C8_Witness ==
    /\ pc = "exited" /\ exitCode = 6 /\ Len(out) = 5
    /\ out[4].line.kind = "PreLeadingZero"
    /\ out[5].stream = "stderr"

(***************************************************************************)
(* C9: the gates in their order, read off the input.  Outcome(s) is the    *)
(* error of the first gate that fails and the diagnostics of the gates     *)
(* passed before it followed by the failing gate's message.                *)
(***************************************************************************)
FoundLines(s, n) == [i \in 1..n |-> Msg("Found", SegmentName[i], SegmentOf(s, i))]

MetaGate(s, sofar) ==
    IF MetaOf(s) = <<>> THEN [err |-> "nil", msgs |-> sofar]
    ELSE IF \E sp \in Spans(MetaOf(s)) : ~AllIdChars(IdAt(MetaOf(s), sp))
    THEN LET bad == {sp \in Spans(MetaOf(s)) : ~AllIdChars(IdAt(MetaOf(s), sp))}
             f   == CHOOSE sp \in bad : \A o \in bad : sp[1] <= o[1]
         IN  [err |-> "ErrInvalidCharacters",
              msgs |-> Append(sofar, Msg("MetaIllegalChars", "", IdAt(MetaOf(s), f)))]
    ELSE [err |-> "nil",
          msgs |-> sofar \o <<Msg("FoundMetadata", "", MetaOf(s)), Msg("MetadataNotice", "", <<>>)>>]

PreGate(s, sofar) ==
    IF PreOf(s) = <<>> THEN MetaGate(s, sofar)
    ELSE IF OffendingSpans(PreOf(s)) # {}
    THEN LET id == FirstOffending(PreOf(s))
         IN  IF AllDigits(id)
             THEN [err |-> "ErrSegmentStartsZero",
                   msgs |-> Append(sofar, Msg("PreLeadingZero", "", id))]
             ELSE [err |-> "ErrInvalidCharacters",
                   msgs |-> Append(sofar, Msg("PreIllegalChars", "", id))]
    ELSE MetaGate(s, sofar \o <<Msg("PreRelease", "", PreOf(s)), Msg("PreReleaseNotice", "", <<>>)>>)

ParseGate(s) ==
    LET bad == {i \in 1..3 : SegmentOf(s, i) = <<>> \/ ~FitsUint64(SegmentOf(s, i))}
    IN  IF bad # {}
        THEN [err  |-> IF SegmentOf(s, Least(bad)) = <<>> THEN "ErrSyntax" ELSE "ErrRange",
              msgs |-> Append(FoundLines(s, Least(bad) - 1),
                              Msg("UnableToParse", SegmentName[Least(bad)], <<>>))]
        ELSE PreGate(s, FoundLines(s, 3))

CoreGate(s) ==
    LET bad == {i \in 1..3 : ~AllDigits(SegmentOf(s, i)) \/ LeadingZero(SegmentOf(s, i))}
    IN  IF bad # {}
        THEN IF ~AllDigits(SegmentOf(s, Least(bad)))
             THEN [err |-> "ErrInvalidCharacters",
                   msgs |-> <<Msg("IllegalNonNumeric", SegmentName[Least(bad)], <<>>)>>]
             ELSE [err |-> "ErrSegmentStartsZero",
                   msgs |-> <<Msg("IllegalLeadingZero", SegmentName[Least(bad)], <<>>)>>]
        ELSE ParseGate(s)

Outcome(s) ==
    IF Len(s) = 0 THEN [err |-> "ErrEmptyString", msgs |-> <<>>]
    ELSE IF DotCount(s) < 2
    THEN [err |-> "ErrInvalidNumberParts",
          msgs |-> <<Msg("FoundNumberOfParts", "", IF DotCount(s) = 0 THEN <<"1">> ELSE <<"2">>)>>]
    ELSE CoreGate(s)

IsPrefix(a, b) == Len(a) <= Len(b) /\ SubSeq(b, 1, Len(a)) = a

FailureKinds ==
    {"FoundNumberOfParts", "IllegalNonNumeric", "IllegalLeadingZero", "UnableToParse",
     "PreLeadingZero", "PreIllegalChars", "MetaIllegalChars"}

\* what holds of the returned result
C9_Result ==
    Returned =>
        /\ err = Outcome(ver).err
        /\ messages = Outcome(ver).msgs
        \* a failure's message is the last one, and the only failure message
        /\ \A k \in 1..Len(messages) :
              messages[k].kind \in FailureKinds => (k = Len(messages) /\ err # "nil")
        /\ (err # "nil" /\ Len(ver) > 0) => LastMessage.kind \in FailureKinds
        \* a core-segment failure: one diagnostic, no Found line
        /\ (messages # <<>> /\ LastMessage.kind \in {"IllegalNonNumeric", "IllegalLeadingZero"})
              => Len(messages) = 1
        \* pre-release and build metadata both invalid: the pre-release is reported
        /\ (CorePasses(ver) /\ OffendingSpans(PreOf(ver)) # {})
              => LastMessage.kind \in {"PreLeadingZero", "PreIllegalChars"}
        \* a build-metadata failure: after the Found lines and the pre-release lines
        /\ (messages # <<>> /\ LastMessage.kind = "MetaIllegalChars") =>
              /\ SubSeq(messages, 1, 3) = FoundLines(ver, 3)
              /\ IF PreOf(ver) # <<>>
                 THEN /\ Len(messages) = 6
                      /\ messages[4] = Msg("PreRelease", "", PreOf(ver))
                      /\ messages[5] = Msg("PreReleaseNotice", "", <<>>)
                 ELSE Len(messages) = 4

\* what holds of every step: diagnostics are only appended, the gates run
\* in their order, and nothing changes the result once Validate returned
GateOrder ==
    <<"empty", "split", "suffix", "core", "major", "minor", "patch", "pre", "meta", "returned">>
GateIndex(p) == CHOOSE i \in 1..Len(GateOrder) : GateOrder[i] = p

C9_Step ==
    /\ IsPrefix(messages, messages')
    /\ (pc \in {"returned", "exited"}) => (messages' = messages /\ err' = err)
    /\ (pc \notin {"cli", "returned", "exited"} /\ pc' # "returned")
          => (GateIndex(pc') = GateIndex(pc) + 1 /\ err' = "nil")
    /\ (pc \notin {"cli", "returned", "exited", "meta"} /\ pc' = "returned")
          => (err' # "nil" /\ Len(messages') = Len(messages) + (IF pc = "empty" THEN 0 ELSE 1))

C9_GatePipeline == [](C9_Result) /\ [][C9_Step]_vars

C9_Witness ==
    /\ Returned /\ CorePasses(ver)
    /\ OffendingSpans(PreOf(ver)) # {}
    /\ \E sp \in Spans(MetaOf(ver)) : ~AllIdChars(IdAt(MetaOf(ver), sp))
    /\ Len(messages) = 4 /\ LastMessage.kind = "PreIllegalChars"

(***************************************************************************)
(* C10: the numeric parse fails only for overflow: a segment that passed   *)
(* the character and leading-zero check is a non-empty string of digits,   *)
(* and when its parse fails its value exceeds 2^64-1.  Refuted: in "1..3"  *)
(* the empty minor segment passes the check and fails to parse.            *)
(***************************************************************************)
C10_ParseFailsOnlyOnOverflow ==
    /\ pc \in {"major", "minor", "patch"} =>
          \A i \in 1..3 : parts[i] # <<>> /\ AllDigits(parts[i])
    /\ (Returned /\ messages # <<>> /\ LastMessage.kind = "UnableToParse") =>
          \E i \in 1..3 : /\ LastMessage.part = SegmentName[i]
                          /\ Canonical(SegmentOf(ver, i))
                          /\ ~FitsUint64(SegmentOf(ver, i))
====
